---- MODULE Spec2Model ----
(***************************************************************************)
(* Model of the cooperative cancellation primitive (abci/src/              *)
(* cancellation.rs) and of the thread-per-connection ABCI server that      *)
(* uses it (abci/src/server.rs).                                           *)
(*                                                                         *)
(* Threads of the model:                                                   *)
(*   - the caller of Server::listen (the polling supervisor),              *)
(*   - the accept thread spawned by listen,                                *)
(*   - one handler thread per accepted connection (Conns),                 *)
(*   - holders of a token obtained through Server::token (Users), which    *)
(*     exercise the token and scope-guard API directly.                    *)
(* The only shared variable is FLAG; every action is one atomic access to  *)
(* it together with the thread-local code around that access.              *)
(***************************************************************************)
EXTENDS Naturals, FiniteSets, Sequences

\* ------------------------------------------------------------------ bounds
NumConns == 2       \* connections the accept thread can accept in a run
NumUsers == 2       \* token holders using the token and guard API
MaxReq == 1         \* distinct request values a client can send
NumInstances == 2   \* servers bound in the process

Conns == 1..NumConns
Users == 1..NumUsers
Requests == 1..MaxReq
Instances == 1..NumInstances

\* ------------------------------------------------- cancellation.rs: token
CANCEL_PANIC_MSG == "requested cancellation"
UNREACHABLE_MSG == "internal error: entered unreachable code"

\* Value of the AtomicBool after cancel(): FLAG.store(true, Relaxed).
cancel_store_false(flag) == FALSE
cancel_toggle(flag) == ~flag
cancel(flag) == TRUE

\* FLAG.load(Relaxed)
is_cancelled(flag) == flag

\* panic_if_cancelled: the body is an unconditional panic!.
panic_if_cancelled(flag) == [raised |-> TRUE, msg |-> CANCEL_PANIC_MSG]

\* cancel_and_panic: cancel(); panic_if_cancelled(); unreachable!()
cancel_and_panic_no_cancel(flag) ==
    LET p == panic_if_cancelled(flag)
    IN  [flag |-> flag, raised |-> TRUE,
         msg |-> IF p.raised THEN p.msg ELSE UNREACHABLE_MSG]
cancel_and_panic(flag) ==
    LET f1 == cancel(flag)
        p == panic_if_cancelled(f1)
    IN  [flag |-> f1, raised |-> TRUE,
         msg |-> IF p.raised THEN p.msg ELSE UNREACHABLE_MSG]

\* ------------------------------------------- cancellation.rs: scope guard
NoGuard == [held |-> FALSE, flag |-> FALSE]

\* TokenDropGuard::new: flag: true
TokenDropGuard_new == [held |-> TRUE, flag |-> TRUE]

\* CancellationToken::drop_guard
drop_guard == TokenDropGuard_new

\* impl Drop for TokenDropGuard: the number of token.cancel() calls made and
\* the value of FLAG after the drop.
drop_never_cancels(g, flag) == [cancels |-> 0, flag |-> flag]
drop(g, flag) ==
    IF g.flag THEN [cancels |-> 1, flag |-> cancel(flag)]
              ELSE [cancels |-> 0, flag |-> flag]

\* TokenDropGuard::disarm(mut self): self.flag = false, then self goes out
\* of scope at the end of the method, which runs Drop.
disarm_keeps_armed(g, flag) == drop(g, flag)
disarm(g, flag) == drop([g EXCEPT !.flag = FALSE], flag)

\* ------------------------------------ server.rs: the server's own source
\* The token server.rs polls and cancels is gancellation_token's, bound to
\* the CancellationSource of the server; the static FLAG of cancellation.rs
\* is private to that file and is no part of it.
\* CancellationSource::new(), called once by each successful bind: the
\* flag of a new source is not set.
CancellationSource_new == FALSE

\* cancel() and is_cancelled() on a source or on a token bound to it, as
\* functions of the source's flag.
source_cancel(flag) == TRUE
source_is_cancelled(flag) == flag

\* Server::token: self.cancellation_source.token(). The source a token
\* handed out by server i, and every clone of it, is bound to.
Server_token_shared(i) == 1
Server_token(i) == i

\* cancel() and is_cancelled() on a token bound to source s.
SourceToken_cancel(srcs, s) == [srcs EXCEPT ![s].flag = source_cancel(@)]
SourceToken_is_cancelled(srcs, s) == source_is_cancelled(srcs[s].flag)

\* ------------------------------------------------ server.rs: loop heads
\* listen, supervisor loop: while !self.cancellation_source.source_is_cancelled()
listen_loop_continues_always(flag) == TRUE
listen_loop_continues_inverted(flag) == source_is_cancelled(flag)
listen_loop_continues(flag) == ~source_is_cancelled(flag)

\* ServerBuilder::bind: TcpListener::bind(addr) and local_addr() fail with
\* `?`, which returns the error to the caller before any Server or source
\* exists; on success the Server is built with a new cancellation source.
NoSource == [bound |-> FALSE, flag |-> FALSE]
bind_err_cancels(kind) ==
    IF kind = "Ok"
    THEN [pc |-> "idle",
          source |-> [bound |-> TRUE, flag |-> CancellationSource_new]]
    ELSE [pc |-> "bind_failed",
          source |-> [bound |-> FALSE, flag |-> source_cancel(FALSE)]]
bind(kind) ==
    IF kind = "Ok"
    THEN [pc |-> "idle",
          source |-> [bound |-> TRUE, flag |-> CancellationSource_new]]
    ELSE [pc |-> "bind_failed", source |-> NoSource]

\* listen, accept thread: while !token.source_is_cancelled()
accept_loop_continues_always(flag) == TRUE
accept_loop_continues(flag) == ~source_is_cancelled(flag)

\* handle_client: while !token.source_is_cancelled()
handle_loop_continues_always(flag) == TRUE
handle_loop_continues(flag) == ~source_is_cancelled(flag)

\* listen, accept thread, the match on the result of listener.accept():
\* Ok spawns a handler thread, Err logs and calls token.source_cancel().
accept_match_err_ignored(kind, flag) ==
    [spawn |-> kind = "Ok", cancels |-> 0, flag |-> flag]
accept_match(kind, flag) ==
    IF kind = "Ok"
    THEN [spawn |-> TRUE, cancels |-> 0, flag |-> flag]
    ELSE [spawn |-> FALSE, cancels |-> 1, flag |-> source_cancel(flag)]

\* handle_client, the match on codec.next(): Some(Ok(r)) goes on to the
\* dispatch, Some(Err(e)) and None log and return.
handle_client_read_err_cancels(kind, flag) ==
    IF kind = "Ok" THEN [pc |-> "handling", exit |-> "none", flag |-> flag]
    ELSE IF kind = "Err"
    THEN [pc |-> "done", exit |-> "decode_err", flag |-> source_cancel(flag)]
    ELSE [pc |-> "done", exit |-> "eof", flag |-> flag]
handle_client_read(kind, flag) ==
    IF kind = "Ok" THEN [pc |-> "handling", exit |-> "none", flag |-> flag]
    ELSE IF kind = "Err"
    THEN [pc |-> "done", exit |-> "decode_err", flag |-> flag]
    ELSE [pc |-> "done", exit |-> "eof", flag |-> flag]

\* handle_client, codec.send(response): Err logs and returns, Ok loops.
handle_client_send_twice(kind, flag) ==
    IF kind = "Ok"
    THEN [pc |-> "check", exit |-> "none", flag |-> flag, written |-> 2]
    ELSE [pc |-> "done", exit |-> "send_err", flag |-> flag, written |-> 0]
handle_client_send(kind, flag) ==
    IF kind = "Ok"
    THEN [pc |-> "check", exit |-> "none", flag |-> flag, written |-> 1]
    ELSE [pc |-> "done", exit |-> "send_err", flag |-> flag, written |-> 0]

\* The response the application returns for request r.
Application_handle(r) == r + MaxReq

\* What the application does with a request and the token it is handed.
\* It returns or panics, before that having called cancel() on the token
\* or not.
AppOutcomes == {"ok", "cancel", "panic", "cancel_and_panic"}

\* The guard the application holds while it handles a request: handle_client
\* creates none and hands the application only the server's token, so
\* holding a TokenDropGuard of cancellation.rs is the application's choice.
AppGuards == {NoGuard, drop_guard}

\* RequestDispatcher::handle(request, &token): the application runs with the
\* guard g it chose, disarmed once it has produced the response; a panic of
\* the application unwinds through g and through handle_client, which
\* catches nothing. flag is the static FLAG, which only g can set; sflag is
\* the flag of the server's source, which only the token can set.
RequestDispatcher_handle(outcome, g, flag, sflag) ==
    LET panicked == outcome \in {"panic", "cancel_and_panic"}
        d == IF panicked THEN drop(g, flag) ELSE disarm(g, flag)
    IN  [panicked |-> panicked,
         flag |-> d.flag,
         sflag |-> IF outcome \in {"cancel", "cancel_and_panic"}
                   THEN source_cancel(sflag) ELSE sflag]

\* ------------------------------------------------------------------ state
VARIABLES
    FLAG,           \* cancellation.rs, static FLAG: AtomicBool
    listenPc,       \* the server: "unbound", "bind_failed", and once bound
                    \* the caller of listen: "idle", "polling", "returned"
    listenResult,   \* value listen returned: "none", "Ok", "Err"
    acceptPc,       \* accept thread: "idle", "check", "accepting", "done"
    acceptErrors,   \* accept calls of the accept thread that returned Err
    acceptTriggers, \* token.cancel() calls made by the accept thread
    acceptLate,     \* accept calls that returned, and handler threads that
                    \* were spawned, with the flag already set
    connPc,         \* handler thread of a connection: "unborn", "check",
                    \* "reading", "handling", "sending", "done"
    connExit,       \* why the handler thread ended
    connReq,        \* request the handler thread holds, 0 if none
    connResp,       \* response the handler returned, 0 if none
    connOut,        \* responses written on the connection in the pass of
                    \* the handler's loop that has just ended
    connLate,       \* per handler thread: whether it was spawned with the
                    \* flag already set, and the requests it dispatched and
                    \* the responses it wrote with the flag already set
    sources,        \* per server of the process: whether bind has built it
                    \* and the flag of its cancellation_source; the threads
                    \* the other variables follow are those of server Srv
    userPc,         \* token holder: "running", "panicked"
    guard,          \* scope guard a token holder owns
    last            \* the last token or guard operation a holder completed

vars == <<FLAG, listenPc, listenResult, acceptPc, acceptErrors,
          acceptTriggers, acceptLate, connPc, connExit, connReq, connLate,
          connResp, connOut, sources, userPc, guard, last>>

serverVars == <<listenPc, listenResult, acceptPc, acceptErrors,
                acceptTriggers, acceptLate, connPc, connExit, connReq,
                connLate, connResp, connOut>>
userVars == <<userPc, guard, last>>

\* The server whose listen, accept and handler threads are followed, what
\* is_cancelled() returns on its source and tokens, and `sources` with the
\* flag of that source set to f.
Srv == 1
SrvFlag == SourceToken_is_cancelled(sources, Server_token(Srv))
SrvSet(f) == [sources EXCEPT ![Server_token(Srv)].flag = f]

MaxAcceptErrors == 2    \* cap of the acceptErrors counter
LateCap == 2            \* value at which the counters of late work saturate

\* A counter of events that happened with the flag already set.
CountLate(n, flag) == IF flag /\ n < LateCap THEN n + 1 ELSE n

\* Record of a completed operation: who ran it, FLAG before it (pre), FLAG
\* when it returned or raised (at), whether it raised and with what message,
\* whether the holder's guard was armed, the cancel() calls made by dropping
\* that guard, and how the holder's scope was left.
Op(u, op, pre, at, raised, msg, armed, cancels, path) ==
    [who |-> u, op |-> op, pre |-> pre, at |-> at, raised |-> raised,
     msg |-> msg, armed |-> armed, cancels |-> cancels, path |-> path]

Init ==
    /\ FLAG = FALSE
    /\ listenPc = "unbound"
    /\ listenResult = "none"
    /\ acceptPc = "idle"
    /\ acceptErrors = 0
    /\ acceptTriggers = 0
    /\ acceptLate = [accepts |-> 0, spawns |-> 0]
    /\ connPc = [c \in Conns |-> "unborn"]
    /\ connExit = [c \in Conns |-> "none"]
    /\ connReq = [c \in Conns |-> 0]
    /\ connLate = [c \in Conns |-> [born |-> FALSE, disp |-> 0, writes |-> 0]]
    /\ connResp = [c \in Conns |-> 0]
    /\ connOut = [c \in Conns |-> <<>>]
    /\ sources = [i \in Instances |-> NoSource]
    /\ userPc = [u \in Users |-> "running"]
    /\ guard = [u \in Users |-> NoGuard]
    /\ last = Op(0, "none", FALSE, FALSE, FALSE, "", FALSE, 0, "")

\* ------------------------------------------------- server.rs: bind, listen
\* ServerBuilder::bind of server i returns Ok(Server) or Err.
Bind(i) ==
    /\ ~sources[i].bound
    /\ i = Srv => listenPc = "unbound"
    /\ \E kind \in {"Ok", "Err"} :
         LET b == bind(kind)
         IN  /\ sources' = [sources EXCEPT ![i] = b.source]
             /\ listenPc' = IF i = Srv THEN b.pc ELSE listenPc
    /\ UNCHANGED <<FLAG, listenResult, acceptPc, acceptErrors, acceptTriggers,
                   connPc, connExit, connReq, acceptLate, connLate,
                   connResp, connOut, userVars>>

\* listen: take a token, spawn the accept thread, enter the polling loop.
ListenCall ==
    /\ listenPc = "idle"
    /\ listenPc' = "polling"
    /\ acceptPc' = "check"
    /\ UNCHANGED <<FLAG, listenResult, acceptErrors, acceptTriggers,
                   connPc, connExit, connReq, acceptLate, connLate,
                   connResp, connOut, userVars, sources>>

\* One evaluation of the supervisor loop's condition: sleep 100ms and
\* evaluate again, or fall out of the loop and return Ok(()). The handles
\* of the spawned threads were dropped at the spawn (let _ = ...), so the
\* return waits for none of them.
ListenPoll_joins ==
    /\ listenPc = "polling"
    /\ IF listen_loop_continues(SrvFlag)
          \/ acceptPc # "done"
          \/ \E c \in Conns : connPc[c] \notin {"unborn", "done"}
       THEN UNCHANGED <<listenPc, listenResult>>
       ELSE listenPc' = "returned" /\ listenResult' = "Ok"
    /\ UNCHANGED <<FLAG, acceptPc, acceptErrors, acceptTriggers,
                   connPc, connExit, connReq, acceptLate, connLate,
                   connResp, connOut, userVars, sources>>
ListenPoll ==
    /\ listenPc = "polling"
    /\ IF listen_loop_continues(SrvFlag)
       THEN UNCHANGED <<listenPc, listenResult>>
       ELSE listenPc' = "returned" /\ listenResult' = "Ok"
    /\ UNCHANGED <<FLAG, acceptPc, acceptErrors, acceptTriggers,
                   connPc, connExit, connReq, acceptLate, connLate,
                   connResp, connOut, userVars, sources>>

\* Accept thread, loop head: the flag is read before every accept call.
AcceptCheck_no_check ==
    /\ acceptPc = "check"
    /\ acceptPc' = "accepting"
    /\ UNCHANGED <<FLAG, listenPc, listenResult, acceptErrors, acceptTriggers,
                   connPc, connExit, connReq, acceptLate, connLate,
                   connResp, connOut, userVars, sources>>
AcceptCheck ==
    /\ acceptPc = "check"
    /\ acceptPc' = IF accept_loop_continues(SrvFlag) THEN "accepting" ELSE "done"
    /\ UNCHANGED <<FLAG, listenPc, listenResult, acceptErrors, acceptTriggers,
                   connPc, connExit, connReq, acceptLate, connLate,
                   connResp, connOut, userVars, sources>>

NextConn == CHOOSE c \in Conns :
                connPc[c] = "unborn" /\ \A d \in Conns : d < c => connPc[d] # "unborn"

\* listener.accept() returns a connection: spawn_client_handler.
AcceptOk ==
    /\ acceptPc = "accepting"
    /\ \E c \in Conns : connPc[c] = "unborn"
    /\ LET m == accept_match("Ok", SrvFlag)
       IN  /\ sources' = SrvSet(m.flag)
           /\ connPc' = IF m.spawn THEN [connPc EXCEPT ![NextConn] = "check"]
                                   ELSE connPc
           /\ acceptTriggers' = acceptTriggers + m.cancels
           /\ acceptLate' =
                [accepts |-> CountLate(acceptLate.accepts, SrvFlag),
                 spawns |-> IF m.spawn THEN CountLate(acceptLate.spawns, SrvFlag)
                                       ELSE acceptLate.spawns]
           /\ connLate' = IF m.spawn
                           THEN [connLate EXCEPT ![NextConn].born = SrvFlag]
                           ELSE connLate
    /\ acceptPc' = "check"
    /\ UNCHANGED <<listenPc, listenResult, acceptErrors, connExit, connReq,
                   connResp, connOut, userVars, FLAG>>

\* listener.accept() returns an error.
AcceptErr ==
    /\ acceptPc = "accepting"
    /\ acceptErrors < MaxAcceptErrors
    /\ LET m == accept_match("Err", SrvFlag)
       IN  /\ sources' = SrvSet(m.flag)
           /\ acceptTriggers' = acceptTriggers + m.cancels
    /\ acceptLate' = [acceptLate EXCEPT
                         !.accepts = CountLate(acceptLate.accepts, SrvFlag)]
    /\ acceptErrors' = acceptErrors + 1
    /\ acceptPc' = "check"
    /\ UNCHANGED <<listenPc, listenResult, connPc, connExit, connReq,
                   connLate, connResp, connOut, userVars,
                   FLAG>>

\* ------------------------------------------------ server.rs: handle_client
NoLate == [born |-> FALSE, disp |-> 0, writes |-> 0]

\* The counters of a handler thread and the responses on its connection
\* are kept while the thread runs: they end with the thread, which drops
\* the stream.
Live(pc, value, initial) == IF pc = "done" THEN initial ELSE value

\* Handler thread, loop head: the only place where the thread reads the flag.
ConnCheck_preempts(c) ==
    /\ connPc[c] \in {"check", "reading"}
    /\ connPc[c] = "reading" => ~handle_loop_continues(SrvFlag)
    /\ IF handle_loop_continues(SrvFlag)
       THEN /\ connPc' = [connPc EXCEPT ![c] = "reading"]
            /\ connOut' = [connOut EXCEPT ![c] = <<>>]
            /\ UNCHANGED <<connExit, connLate>>
       ELSE /\ connPc' = [connPc EXCEPT ![c] = "done"]
            /\ connExit' = [connExit EXCEPT ![c] = "cancelled"]
            /\ connLate' = [connLate EXCEPT ![c] = NoLate]
            /\ connOut' = [connOut EXCEPT ![c] = <<>>]
    /\ UNCHANGED <<FLAG, listenPc, listenResult, acceptPc, acceptErrors,
                   acceptTriggers, acceptLate, connReq, connResp, userVars,
                   sources>>
ConnCheck(c) ==
    /\ connPc[c] = "check"
    /\ IF handle_loop_continues(SrvFlag)
       THEN /\ connPc' = [connPc EXCEPT ![c] = "reading"]
            /\ connOut' = [connOut EXCEPT ![c] = <<>>]
            /\ UNCHANGED <<connExit, connLate>>
       ELSE /\ connPc' = [connPc EXCEPT ![c] = "done"]
            /\ connExit' = [connExit EXCEPT ![c] = "cancelled"]
            /\ connLate' = [connLate EXCEPT ![c] = NoLate]
            /\ connOut' = [connOut EXCEPT ![c] = <<>>]
    /\ UNCHANGED <<FLAG, listenPc, listenResult, acceptPc, acceptErrors,
                   acceptTriggers, acceptLate, connReq, connResp, userVars,
                   sources>>

\* codec.next() returns: a request, a decode/transport error, end of stream.
ConnRead(c) ==
    /\ connPc[c] = "reading"
    /\ \E kind \in {"Ok", "Err", "None"} : \E r \in Requests :
         LET m == handle_client_read(kind, SrvFlag)
         IN  /\ sources' = SrvSet(m.flag)
             /\ connPc' = [connPc EXCEPT ![c] = m.pc]
             /\ connExit' = [connExit EXCEPT ![c] = m.exit]
             /\ connReq' = [connReq EXCEPT ![c] = IF kind = "Ok" THEN r ELSE 0]
             /\ connLate' = [connLate EXCEPT ![c] =
                   Live(m.pc,
                        IF m.pc = "handling"
                        THEN [@ EXCEPT !.disp = CountLate(@, SrvFlag)] ELSE @,
                        NoLate)]
             /\ connOut' = [connOut EXCEPT ![c] = <<>>]
    /\ UNCHANGED <<listenPc, listenResult, acceptPc, acceptErrors,
                   acceptTriggers, acceptLate, connResp, userVars, FLAG>>

\* app.handle(request, &token) returns a response or panics.
ConnHandle(c) ==
    /\ connPc[c] = "handling"
    /\ \E outcome \in AppOutcomes : \E g \in AppGuards :
         LET h == RequestDispatcher_handle(outcome, g, FLAG, SrvFlag)
         IN  /\ FLAG' = h.flag
             /\ sources' = SrvSet(h.sflag)
             /\ IF h.panicked
                THEN /\ connPc' = [connPc EXCEPT ![c] = "done"]
                     /\ connExit' = [connExit EXCEPT ![c] = "panic"]
                     /\ connReq' = [connReq EXCEPT ![c] = 0]
                     /\ connLate' = [connLate EXCEPT ![c] = NoLate]
                     /\ connOut' = [connOut EXCEPT ![c] = <<>>]
                     /\ UNCHANGED connResp
                ELSE /\ connPc' = [connPc EXCEPT ![c] = "sending"]
                     /\ connResp' = [connResp EXCEPT ![c] =
                                        Application_handle(connReq[c])]
                     /\ UNCHANGED <<connExit, connReq, connLate, connOut>>
    /\ UNCHANGED <<listenPc, listenResult, acceptPc, acceptErrors,
                   acceptTriggers, acceptLate, userVars>>

\* codec.send(response) returns.
ConnSend(c) ==
    /\ connPc[c] = "sending"
    /\ \E kind \in {"Ok", "Err"} :
         LET m == handle_client_send(kind, SrvFlag)
         IN  /\ sources' = SrvSet(m.flag)
             /\ connPc' = [connPc EXCEPT ![c] = m.pc]
             /\ connExit' = [connExit EXCEPT ![c] = m.exit]
             /\ connLate' = [connLate EXCEPT ![c] =
                   Live(m.pc,
                        IF kind = "Ok"
                        THEN [@ EXCEPT !.writes = CountLate(@, SrvFlag)] ELSE @,
                        NoLate)]
             /\ connOut' = [connOut EXCEPT ![c] =
                   Live(m.pc,
                        @ \o [i \in 1..m.written |-> connResp[c]],
                        <<>>)]
    /\ connReq' = [connReq EXCEPT ![c] = 0]
    /\ connResp' = [connResp EXCEPT ![c] = 0]
    /\ UNCHANGED <<listenPc, listenResult, acceptPc, acceptErrors,
                   acceptTriggers, acceptLate, userVars, FLAG>>

\* ------------------------------- holders of a token: the token and guard API
\* Unwinding a holder's stack drops the guard it owns, if any.
Unwind(g, flag) ==
    IF g.held THEN drop(g, flag) ELSE [cancels |-> 0, flag |-> flag]

UserIsCancelled(u) ==
    /\ userPc[u] = "running"
    /\ last' = Op(u, "is_cancelled", FLAG, is_cancelled(FLAG), FALSE, "",
                  guard[u].flag, 0, "")
    /\ UNCHANGED <<FLAG, serverVars, sources, userPc, guard>>

UserCancel(u) ==
    /\ userPc[u] = "running"
    /\ FLAG' = cancel(FLAG)
    /\ last' = Op(u, "cancel", FLAG, FLAG', FALSE, "", FALSE, 1, "")
    /\ UNCHANGED <<serverVars, sources, userPc, guard>>

UserPanicIfCancelled(u) ==
    /\ userPc[u] = "running"
    /\ LET p == panic_if_cancelled(FLAG)
           d == Unwind(guard[u], FLAG)
       IN  IF p.raised
           THEN /\ FLAG' = d.flag
                /\ userPc' = [userPc EXCEPT ![u] = "panicked"]
                /\ guard' = [guard EXCEPT ![u] = NoGuard]
                /\ last' = Op(u, "panic_if_cancelled", FLAG, FLAG, TRUE, p.msg,
                              guard[u].flag, d.cancels, "unwind")
           ELSE /\ last' = Op(u, "panic_if_cancelled", FLAG, FLAG, FALSE, "",
                              guard[u].flag, 0, "return")
                /\ UNCHANGED <<FLAG, userPc, guard>>
    /\ UNCHANGED <<serverVars, sources>>

UserCancelAndPanic(u) ==
    /\ userPc[u] = "running"
    /\ LET r == cancel_and_panic(FLAG)
           d == Unwind(guard[u], r.flag)
       IN  /\ FLAG' = d.flag
           /\ last' = Op(u, "cancel_and_panic", FLAG, r.flag, r.raised, r.msg,
                         guard[u].flag, d.cancels, "unwind")
    /\ userPc' = [userPc EXCEPT ![u] = "panicked"]
    /\ guard' = [guard EXCEPT ![u] = NoGuard]
    /\ UNCHANGED <<serverVars, sources>>

\* token.drop_guard(): a scope begins.
UserDropGuard(u) ==
    /\ userPc[u] = "running"
    /\ ~guard[u].held
    /\ guard' = [guard EXCEPT ![u] = drop_guard]
    /\ last' = Op(u, "drop_guard", FLAG, FLAG, FALSE, "", drop_guard.flag, 0, "")
    /\ UNCHANGED <<FLAG, serverVars, sources, userPc>>

\* guard.disarm()
UserDisarm(u) ==
    /\ userPc[u] = "running"
    /\ guard[u].held
    /\ LET d == disarm(guard[u], FLAG)
       IN  /\ FLAG' = d.flag
           /\ last' = Op(u, "disarm", FLAG, d.flag, FALSE, "", guard[u].flag,
                         d.cancels, "return")
    /\ guard' = [guard EXCEPT ![u] = NoGuard]
    /\ UNCHANGED <<serverVars, sources, userPc>>

ExitPaths == {"return", "early_return", "unwind"}

\* The scope of the guard is left with the guard still in it: by reaching
\* its end, by an early return, or by a panic unwinding through it.
UserScopeExit(u) ==
    /\ userPc[u] = "running"
    /\ guard[u].held
    /\ \E path \in ExitPaths :
         LET d == drop(guard[u], FLAG)
         IN  /\ FLAG' = d.flag
             /\ last' = Op(u, "drop", FLAG, d.flag, path = "unwind", "",
                           guard[u].flag, d.cancels, path)
             /\ userPc' = [userPc EXCEPT ![u] =
                              IF path = "unwind" THEN "panicked" ELSE "running"]
    /\ guard' = [guard EXCEPT ![u] = NoGuard]
    /\ UNCHANGED <<serverVars, sources>>

\* A holder of a cancellation.rs token that is none of the holders above
\* calls cancel().
ExternalCancel ==
    /\ FLAG' = cancel(FLAG)
    /\ UNCHANGED <<serverVars, sources, userVars>>

\* ---------------------------------------- servers of one process, tokens
\* A holder of a token handed out by server i, or of a clone, calls cancel().
ServerTokenCancel(i) ==
    /\ sources[i].bound
    /\ sources' = SourceToken_cancel(sources, Server_token(i))
    /\ UNCHANGED <<FLAG, serverVars, userVars>>

\* A holder of a token handed out by server i, or of a clone, calls
\* is_cancelled().
ServerTokenIsCancelled(i) ==
    /\ sources[i].bound
    /\ last' = Op(i, "source_is_cancelled",
                  SourceToken_is_cancelled(sources, Server_token(i)),
                  SourceToken_is_cancelled(sources, Server_token(i)),
                  FALSE, "", FALSE, 0, "")
    /\ UNCHANGED <<FLAG, serverVars, sources, userPc, guard>>

\* ---------------------------------------------------------- specifications
\* The server: the supervisor, the accept thread and the handler threads,
\* with a token handed out by Server::token being cancelled from outside.
Next ==
    \/ Bind(Srv)
    \/ ListenCall
    \/ ListenPoll
    \/ AcceptCheck
    \/ AcceptOk
    \/ AcceptErr
    \/ \E c \in Conns : ConnCheck(c)
    \/ \E c \in Conns : ConnRead(c)
    \/ \E c \in Conns : ConnHandle(c)
    \/ \E c \in Conns : ConnSend(c)
    \/ ServerTokenCancel(Srv)

Spec == Init /\ [][Next]_vars

\* The loop heads are straight-line code of running threads (the supervisor
\* wakes from its 100ms sleep, a thread that came back from accept, read or
\* send re-evaluates its loop condition): the scheduler runs them. Nothing
\* makes a blocking accept, read or send return.
FairSpec ==
    /\ Spec
    /\ WF_vars(ListenPoll)
    /\ WF_vars(AcceptCheck)
    /\ \A c \in Conns : WF_vars(ConnCheck(c))

\* The token and guard API of cancellation.rs used concurrently by the
\* token holders, with any other holder in the process cancelling as well,
\* next to the servers bound in the process and the holders of their tokens.
TokenNext ==
    \/ \E u \in Users : UserIsCancelled(u)
    \/ \E u \in Users : UserCancel(u)
    \/ \E u \in Users : UserPanicIfCancelled(u)
    \/ \E u \in Users : UserCancelAndPanic(u)
    \/ \E u \in Users : UserDropGuard(u)
    \/ \E u \in Users : UserDisarm(u)
    \/ \E u \in Users : UserScopeExit(u)
    \/ \E i \in Instances : Bind(i)
    \/ \E i \in Instances : ServerTokenCancel(i)
    \/ \E i \in Instances : ServerTokenIsCancelled(i)
    \/ ExternalCancel

TokenSpec == Init /\ [][TokenNext]_vars


\* ================================================================ claims
\* ---- C1 (TokenSpec): the flag starts false and is monotonic: no step
\* takes FLAG from true to false, is_cancelled() returns true from then on,
\* and after a cancel() has completed the flag is true.
C1_FlagMonotonic ==
    /\ ~FLAG
    /\ [][is_cancelled(FLAG) => is_cancelled(FLAG)']_vars
    /\ [](last.op = "cancel" => (last.at /\ is_cancelled(FLAG)))
    /\ []((last.op = "is_cancelled" /\ last.pre) => last.at)

\* A holder has completed cancel() on a flag that was false, a second
\* holder has since panicked, and the flag is set.
C1_Witness ==
    /\ last.op = "cancel" /\ ~last.pre /\ FLAG
    /\ \E u \in Users : u # last.who /\ userPc[u] = "panicked"

\* ---- C2 (Spec), as claimed: when the application handler panics while a
\* handler thread is handling a request, the shared flag is set.
C2_HandlerPanicCancels ==
    \A c \in Conns : connExit[c] = "panic" => SrvFlag

\* ---- C3 (TokenSpec): a guard dropped while armed, on any exit path of
\* its scope (return, early return, unwind of a panic), calls cancel()
\* exactly once and leaves the flag set.
C3_ArmedDropCancelsOnce ==
    ((last.op = "drop" \/ last.path = "unwind") /\ last.armed)
        => (last.cancels = 1 /\ FLAG)

\* An armed guard was dropped by an unwinding panic while the flag was
\* still false.
C3_Witness ==
    /\ last.op = "drop" /\ last.path = "unwind" /\ last.armed
    /\ ~last.pre /\ FLAG /\ userPc[last.who] = "panicked"

\* ---- C4 (TokenSpec): disarm() and the drop that follows it call cancel()
\* zero times and leave the flag as it was.
C4_DisarmedNeverCancels ==
    [][\A u \in Users :
          (guard[u].held /\ ~guard'[u].held
             /\ last'.op = "disarm" /\ last'.who = u)
          => (FLAG' = FLAG /\ last'.cancels = 0 /\ last'.at = last'.pre)]_vars

\* An armed guard has been disarmed and is gone, and the flag is still false.
C4_Witness ==
    /\ last.op = "disarm" /\ last.armed /\ ~last.pre
    /\ ~guard[last.who].held /\ ~FLAG

\* ---- C5 (TokenSpec): panic_if_cancelled() raises exactly when the flag is
\* set: on a false flag it returns normally and leaves the flag false.
C5_CheckpointPollsFlag ==
    last.op = "panic_if_cancelled" =>
        /\ last.raised <=> last.pre
        /\ last.raised => last.msg = CANCEL_PANIC_MSG
        /\ ~last.pre => (last.path = "return" /\ ~last.at)

\* ---- C6 (TokenSpec): cancel_and_panic sets the flag, then raises the
\* signal of the checkpoint; it never returns, and the flag is true where
\* the signal is raised.
C6_CancelAndPanic ==
    last.op = "cancel_and_panic" =>
        /\ last.at
        /\ last.raised
        /\ last.msg = panic_if_cancelled(TRUE).msg
        /\ last.msg = CANCEL_PANIC_MSG
        /\ userPc[last.who] = "panicked"
        /\ FLAG

\* cancel_and_panic was called on a false flag by a holder without a guard.
C6_Witness ==
    /\ last.op = "cancel_and_panic" /\ ~last.pre /\ ~last.armed
    /\ last.raised /\ FLAG

\* ---- C7 (Spec): listen() does not return while the flag is false: where
\* it has returned the flag is set, and it returned Ok.
C7_ListenReturnsOnlyCancelled ==
    /\ listenPc = "returned" => (SrvFlag /\ listenResult = "Ok")
    /\ listenResult \in {"none", "Ok"}
    /\ listenResult = "Ok" <=> listenPc = "returned"

\* listen() has returned Ok.
C7_Witness ==
    listenPc = "returned" /\ listenResult = "Ok" /\ SrvFlag

\* ---- C8 (FairSpec): once the flag is set while listen() is polling,
\* listen() returns, however many handler threads are running or blocked;
\* a poll that finds the flag set is the last one.
C8_ListenEventuallyReturns ==
    /\ (SrvFlag /\ listenPc = "polling") ~> (listenPc = "returned")
    /\ [][(ListenPoll /\ SrvFlag) => listenPc' = "returned"]_vars

\* listen() has returned while one handler thread is blocked in a read,
\* another is handling a request and the accept thread is blocked in accept.
C8_Witness ==
    /\ listenPc = "returned"
    /\ acceptPc = "accepting"
    /\ \E c, d \in Conns : connPc[c] = "reading" /\ connPc[d] = "handling"

\* ---- C9 (FairSpec): after an accept error the accept thread has called
\* cancel() exactly once, the flag is set, the thread does not call accept
\* again and leaves its loop, and listen() returns.
C9_AcceptErrorShutsDown ==
    /\ [](acceptErrors > 0 =>
            /\ acceptErrors = 1
            /\ acceptTriggers = 1
            /\ SrvFlag
            /\ acceptPc \in {"check", "done"})
    /\ (acceptErrors > 0) ~> (acceptPc = "done" /\ listenPc = "returned")

\* The first accept call failed: no connection was ever accepted, the
\* accept thread has left its loop and listen() has returned.
C9_Witness ==
    /\ acceptErrors = 1
    /\ \A c \in Conns : connPc[c] = "unborn"
    /\ acceptPc = "done"
    /\ listenPc = "returned"

\* ---- C10 (Spec): a read error, an end of stream or a failed send ends
\* the handler thread of that connection and changes nothing else: not the
\* flag, not the accept thread, not the supervisor, not another connection.
LocalFaults == {"decode_err", "eof", "send_err"}

C10_LocalFaultsStayLocal ==
    [][\A c \in Conns :
          (connPc[c] \in {"reading", "sending"} /\ connPc'[c] = "done")
          => /\ connExit'[c] \in LocalFaults
             /\ SrvFlag' = SrvFlag
             /\ sources' = sources
             /\ FLAG' = FLAG
             /\ acceptPc' = acceptPc
             /\ listenPc' = listenPc
             /\ acceptTriggers' = acceptTriggers
             /\ \A d \in Conns \ {c} :
                    connPc'[d] = connPc[d] /\ connExit'[d] = connExit[d]]_vars

\* One connection ended on a decode error; the flag is not set, another
\* connection has a request in the handler, the accept thread is blocked
\* in accept and the supervisor polls.
C10_Witness ==
    /\ ~SrvFlag
    /\ acceptPc = "accepting"
    /\ listenPc = "polling"
    /\ \E c, d \in Conns : connExit[c] = "decode_err" /\ connPc[d] = "handling"


\* ---- C11 as claimed (FairSpec): once the flag is set, every live handler
\* thread eventually exits.
C11_EveryLiveThreadExits ==
    \A c \in Conns :
        (SrvFlag /\ connPc[c] \in {"check", "reading", "handling", "sending"})
            ~> (connPc[c] = "done")

\* ---- C11 as amended (FairSpec): once the flag is set, a handler thread
\* that is at the top of its loop exits there and does not start another
\* read; a thread that has exited takes no further step. A thread blocked
\* in a read, in the handler or in a send gets there only when that call
\* returns.
C11_ExitAtNextPoll ==
    /\ \A c \in Conns : (SrvFlag /\ connPc[c] = "check") ~> (connPc[c] = "done")
    /\ [][\A c \in Conns :
            (SrvFlag /\ connPc[c] = "check") => connPc'[c] \in {"check", "done"}]_vars
    /\ [][\A c \in Conns :
            connPc[c] = "done"
                => (connPc'[c] = "done" /\ connExit'[c] = connExit[c]
                    /\ connReq'[c] = connReq[c])]_vars

\* Two handler threads have left their loops at the flag check.
C11_Witness ==
    /\ SrvFlag
    /\ \E c, d \in Conns :
         c # d /\ connExit[c] = "cancelled" /\ connExit[d] = "cancelled"

\* ---- C12 as claimed (Spec): no accept call completes with a connection,
\* and no handler thread is spawned, in a state where the flag is set.
C12_NoAcceptOnceCancelled ==
    [][(\E c \in Conns : connPc[c] = "unborn" /\ connPc'[c] # "unborn")
          => ~SrvFlag]_vars

\* ---- C12 as amended (Spec): the accept thread never begins an accept
\* call in a state where the flag is set, and a handler thread is spawned
\* only by an accept call that returns; an accept call that was pending
\* when the flag was set can still return a connection.
C12_NoAcceptBegunOnceCancelled ==
    /\ [][(acceptPc = "check" /\ acceptPc' = "accepting") => ~SrvFlag]_vars
    /\ [][(\E c \in Conns : connPc[c] = "unborn" /\ connPc'[c] # "unborn")
            => (acceptPc = "accepting" /\ acceptPc' = "check")]_vars

\* The flag was set from outside, and the accept thread left its loop at
\* the flag check without an accept error and with connections still to come.
C12_Witness ==
    /\ SrvFlag
    /\ acceptPc = "done"
    /\ acceptErrors = 0
    /\ \E c \in Conns : connPc[c] = "unborn"


\* ---- C14 as claimed (Spec): a failure to bind, like a failure to accept,
\* sets the flag.
C14_BindAndAcceptFailuresCancel ==
    /\ listenPc = "bind_failed" => SrvFlag
    /\ acceptErrors > 0 => SrvFlag

\* ---- C14 as amended (Spec): a failure to accept sets the flag; a failure
\* to bind leaves the flag as it was and leaves no server behind: no
\* cancellation source, no accept thread, no handler thread, no listen call.
C14_OnlyAcceptFailureCancels ==
    /\ [](acceptErrors > 0 => SrvFlag)
    /\ [][(listenPc = "unbound" /\ listenPc' = "bind_failed")
            => SrvFlag' = SrvFlag]_vars
    /\ [](listenPc = "bind_failed" =>
            /\ sources[Srv] = NoSource
            /\ acceptPc = "idle"
            /\ listenResult = "none"
            /\ \A c \in Conns : connPc[c] = "unborn")
    /\ [][listenPc = "bind_failed" => listenPc' = "bind_failed"]_vars

\* The bind has failed and the flag is not set.
C14_Witness ==
    listenPc = "bind_failed" /\ ~SrvFlag


\* ---- C15 (TokenSpec): cancel() is idempotent and commutative and cannot
\* fail or block: a running holder can always call it, the call raises
\* nothing and ends with the flag true whatever the flag was and whoever
\* called before, and on a set flag it changes nothing.
C15_CancelIdempotentCommutative ==
    /\ [](\A u \in Users : userPc[u] = "running" => ENABLED UserCancel(u))
    /\ [](cancel(cancel(FLAG)) = cancel(FLAG) /\ cancel(FLAG) = cancel(~FLAG))
    /\ [][\A u \in Users :
            UserCancel(u)
                => /\ FLAG' = TRUE
                   /\ FLAG => FLAG' = FLAG
                   /\ ~last'.raised
                   /\ userPc' = userPc
                   /\ guard' = guard]_vars

\* A holder has completed cancel() on a flag that was already set while
\* another holder is still running.
C15_Witness ==
    /\ last.op = "cancel" /\ last.pre /\ last.at /\ FLAG
    /\ \E u \in Users : u # last.who /\ userPc[u] = "running"


\* ---- C16 (TokenSpec): each server has exactly one flag, that of its own
\* cancellation source. A cancel() through any token of a server sets that
\* server's flag and the flag of no other server; is_cancelled() on any
\* token of a server returns that server's flag, so the cancel is observed
\* through every token of the same server and through no token of another.
C16_OneFlagPerInstance ==
    /\ [][\A i \in Instances :
            ServerTokenCancel(i)
                => /\ sources'[i].flag
                   /\ SourceToken_is_cancelled(sources', Server_token(i))
                   /\ \A j \in Instances \ {i} :
                         /\ sources'[j] = sources[j]
                         /\ SourceToken_is_cancelled(sources', Server_token(j))
                              = SourceToken_is_cancelled(sources, Server_token(j))]_vars
    /\ [][\A i \in Instances :
            ServerTokenIsCancelled(i) => last'.at = sources[i].flag]_vars
    /\ [](\A i \in Instances : sources[i].flag => sources[i].bound)

\* Two servers are bound in the process; a token of one was cancelled,
\* is_cancelled() on a token of that server then returned true, and the
\* flag of the other server is still not set.
C16_Witness ==
    \E i, j \in Instances :
        /\ i # j
        /\ sources[i] = [bound |-> TRUE, flag |-> TRUE]
        /\ sources[j] = [bound |-> TRUE, flag |-> FALSE]
        /\ last.op = "source_is_cancelled" /\ last.who = i /\ last.at


\* ---- C17 (Spec): listen() returns without joining the threads it
\* spawned: whenever the flag is set the polling supervisor can return,
\* whatever the accept thread and the handler threads are doing, and its
\* return moves none of them.
ListenReturn == ListenPoll /\ listenPc' = "returned"

C17_ListenDoesNotJoin ==
    /\ []((listenPc = "polling" /\ SrvFlag) => ENABLED ListenReturn)
    /\ [][(listenPc = "polling" /\ listenPc' = "returned")
            => /\ acceptPc' = acceptPc
               /\ connPc' = connPc
               /\ connExit' = connExit
               /\ connReq' = connReq]_vars

\* listen() has returned while the accept thread is still in its loop and
\* a handler thread holds a request it has not answered yet.
C17_Witness ==
    /\ listenPc = "returned"
    /\ acceptPc \in {"check", "accepting"}
    /\ \E c \in Conns : connPc[c] = "handling" /\ connReq[c] \in Requests


\* ---- C18 (Spec): cancellation is cooperative. A handler thread blocked
\* in a read leaves the read only by the read returning, and the accept
\* thread leaves accept only by accept returning: no other step, setting
\* the flag included, moves them, and while blocked they cannot take the
\* step that reads the flag.
C18_BlockedThreadsStayBlocked ==
    /\ [][\A c \in Conns :
            (connPc[c] = "reading" /\ connPc'[c] # "reading") => ConnRead(c)]_vars
    /\ [][(acceptPc = "accepting" /\ acceptPc' # "accepting")
            => (AcceptOk \/ AcceptErr)]_vars
    /\ [](\A c \in Conns : connPc[c] = "reading" => ~ENABLED ConnCheck(c))
    /\ [](acceptPc = "accepting" => ~ENABLED AcceptCheck)

\* The flag is set while the accept thread is blocked in accept and every
\* handler thread is blocked in a read.
C18_Witness ==
    /\ SrvFlag
    /\ acceptPc = "accepting"
    /\ \A c \in Conns : connPc[c] = "reading"


\* ---- C20 (Spec): after the flag has been set the accept thread completes
\* at most one further accept call and spawns at most one further handler
\* thread; once that call has returned the thread does not enter accept
\* again.
C20_AtMostOneLateAccept ==
    /\ [](acceptLate.accepts <= 1 /\ acceptLate.spawns <= acceptLate.accepts)
    /\ [](acceptLate.accepts = 1 => (SrvFlag /\ acceptPc \in {"check", "done"}))
    /\ [][acceptLate.accepts = 1 => acceptPc' \in {acceptPc, "done"}]_vars

\* The flag was set while the accept thread was blocked in accept; the
\* pending call then returned a connection, a handler thread was spawned for
\* it, and the accept thread left its loop.
C20_Witness ==
    /\ acceptLate = [accepts |-> 1, spawns |-> 1]
    /\ acceptErrors = 0
    /\ acceptPc = "done"


\* ---- C19 (Spec): with the flag set a handler thread dispatches at most
\* one more request and writes at most one more response, and a handler
\* thread spawned with the flag already set dispatches and writes nothing:
\* it leaves its loop at the first flag check.
C19_AtMostOneLateRequest ==
    \A c \in Conns :
        /\ connLate[c].disp <= 1
        /\ connLate[c].writes <= 1
        /\ connLate[c].born =>
              /\ connLate[c].disp = 0 /\ connLate[c].writes = 0
              /\ connReq[c] = 0
              /\ connPc[c] \in {"check", "done"}
              /\ connExit[c] \in {"none", "cancelled"}

\* One handler thread was blocked in a read when the flag was set, then
\* dispatched the request it read and wrote the response; another was
\* spawned after the flag was set. Both are at their next flag check.
C19_Witness ==
    \E c, d \in Conns :
        /\ connLate[c] = [born |-> FALSE, disp |-> 1, writes |-> 1]
        /\ connPc[c] = "check"
        /\ connLate[d].born
        /\ connPc[d] = "check"


\* ---- C13 (Spec), as stated: every request read from a connection is
\* answered, i.e. a thread holding a request leaves the handling and sending
\* steps only with exactly one response written on the connection.
C13_EveryRequestAnswered ==
    [][\A c \in Conns :
          (connPc[c] \in {"handling", "sending"}
              /\ connPc'[c] \notin {"handling", "sending"})
          => Len(connOut'[c]) = 1]_vars

\* ---- C13 (Spec), amended: each request read yields at most one response
\* on the same connection. It yields exactly one, the application's output
\* for that request, written by that thread before it reads again, when the
\* handler returns and the write succeeds; when the handler panics or the
\* write fails the thread ends and nothing is written. Responses are written
\* only by the sending step and no request or response is carried over to
\* the next read.
C13_AtMostOneResponse ==
    /\ [](\A c \in Conns : Len(connOut[c]) <= 1)
    /\ [](\A c \in Conns :
            connPc[c] \in {"check", "reading"}
                => (connReq[c] = 0 /\ connResp[c] = 0))
    /\ [](\A c \in Conns :
            connPc[c] = "sending"
                => (connReq[c] \in Requests
                    /\ connResp[c] = Application_handle(connReq[c])
                    /\ connOut[c] = <<>>))
    /\ [][\A c \in Conns :
            (connPc[c] = "sending" /\ connPc'[c] = "check")
                => connOut'[c] = <<Application_handle(connReq[c])>>]_vars
    /\ [][\A c \in Conns :
            (connOut'[c] # connOut[c] /\ connOut'[c] # <<>>)
                => (connPc[c] = "sending" /\ connPc'[c] = "check")]_vars
    /\ [][\A c \in Conns :
            (connPc[c] \in {"handling", "sending"} /\ connPc'[c] = "done")
                => (connOut'[c] = <<>>
                    /\ connExit'[c] \in {"panic", "send_err"})]_vars

\* One connection has had a request answered and its thread is back at the
\* head of its loop; the other connection's thread ended in a handler
\* panic, its request unanswered.
C13_Witness ==
    \E c, d \in Conns :
        /\ connPc[c] = "check"
        /\ Len(connOut[c]) = 1
        /\ connOut[c][1] \in {Application_handle(r) : r \in Requests}
        /\ connExit[d] = "panic"

====
